---- MODULE Spec2Model ----
(***************************************************************************)
(* Model of src/ahp_module.py of KPI-AI-Agent: the AHPHierarchy build      *)
(* (__init__ and its four steps), get_final_weights, report, load_config,  *)
(* validate_config and main.                                               *)
(*                                                                         *)
(* The module delegates every matrix, eigenvector and synthesis            *)
(* computation to the external package ahpy (ahpy.Compare, ahpy.Hierarchy).*)
(* That package is not part of the repository.  Each call into it is       *)
(* modelled as an external call with every outcome the caller can observe: *)
(* it raises, or it returns an object whose attributes read by the module  *)
(* (elements, consistency_ratio) are drawn from bounded sets.              *)
(***************************************************************************)
EXTENDS Integers, Sequences, FiniteSets, TLC

VARIABLES
  file,          \* what is stored at config_path
  entry,         \* who runs the build: main(config_path) or AHPHierarchy(config_path)
  pc,            \* position of the running call
  mconfig,       \* main's local `config` (result of load_config)
  config,        \* self.config
  criteria,      \* self.criteria
  alternatives,  \* self.alternatives: criterion name -> Compare
  altIdx,        \* position of the loop of _build_alternatives
  cmp,           \* the Compare most recently returned by ahpy.Compare
  compares,      \* number of ahpy.Compare objects constructed so far
  hierarchy,     \* local `hierarchy` of _build_hierarchical_structure
  todo,          \* criteria the loop of _build_hierarchical_structure has still to visit
  root,          \* self.root
  error,         \* the exception that ended the call
  out,           \* lines printed by main
  weights,       \* value last returned by get_final_weights
  calls          \* number of get_final_weights / report calls made on the built object

vars == <<file, entry, pc, mconfig, config, criteria, alternatives, altIdx, cmp,
          compares, hierarchy, todo, root, error, out, weights, calls>>

----------------------------------------------------------------------------
(* Bounds of the model *)

\* longest "alternatives" list of a configuration
MaxAlts == 2
\* consistency ratios returned by ahpy.Compare lie within CRSpread thousandths of the threshold
CRSpread == 1
\* calls made on a built hierarchy by a direct caller
MaxCalls == 2

----------------------------------------------------------------------------
(* Program constants *)

\* precision=3: consistency_ratio is rounded to thousandths; ratios are counted in thousandths
Precision == 3
\* the literal 0.1 of `consistency_ratio > 0.1`, in thousandths
CRThreshold == 100

----------------------------------------------------------------------------
(* Values read from the configuration file *)

\* criterion names that occur in configurations and comparisons
Names == {"X", "Y"}
\* an alternatives entry without a "name" key
NoName == "-"

\* one element of config["alternatives"]
AltEntries == [name : Names \cup {NoName}, hasComparisons : BOOLEAN]

AltLists == UNION {[1..n -> AltEntries] : n \in 0..MaxAlts}

\* config["criteria"]: absent, not a dict, a dict without "comparisons", a dict with them
CriteriaKinds == {"absent", "notdict", "nocomparisons", "ok"}

\* a parsed JSON object
JsonConfigs ==
  [kind : {"json"}, criteria : CriteriaKinds, hasAlternatives : BOOLEAN, alts : AltLists]

NoConfig == [kind |-> "none", criteria |-> "absent", hasAlternatives |-> FALSE, alts |-> <<>>]

\* a path with no file, and a file that is not JSON
MissingFile == [kind |-> "missing", criteria |-> "absent", hasAlternatives |-> FALSE, alts |-> <<>>]
BadJsonFile == [kind |-> "badjson", criteria |-> "absent", hasAlternatives |-> FALSE, alts |-> <<>>]

Files ==
  {MissingFile, BadJsonFile}
    \cup {c \in JsonConfigs : c.hasAlternatives \/ c.alts = <<>>}

----------------------------------------------------------------------------
(* Values returned by the external package *)

\* alternative sets an alternatives comparison may range over
AltSets == {{"A", "B"}, {"A", "C"}}

CRValues == {CRThreshold + d : d \in (0 - CRSpread)..CRSpread}

NoCompare == [elements |-> {}, cr |-> -1]

\* ahpy.Compare(...) for the criteria: the attributes the module reads
CriteriaCompares == [elements : SUBSET Names, cr : CRValues]

\* ahpy.Compare(...) for the alternatives of one criterion
AlternativeCompares == [elements : AltSets, cr : CRValues]

NoHierarchy == [built |-> FALSE, criteria |-> NoCompare, children |-> [n \in {} |-> NoCompare]]

NoError == [class |-> "none", site |-> "none"]

NoWeights == "none"
\* the dicts ahpy's get_priority_vector may return; the module does not constrain them
Vectors == {"vector 1", "vector 2"}

----------------------------------------------------------------------------
(* Pure helpers *)

\* the check written as `consistency_ratio >= 0.1`: what the error message "must be < 0.1" describes
InconsistentAtThreshold(cr) == cr >= CRThreshold

\* `consistency_ratio > 0.1`
Inconsistent(cr) == cr > CRThreshold

\* validate_config(config): TRUE when it returns, FALSE when it raises AHPConfigError
ValidConfig(c) ==
  /\ c.criteria # "absent"
  /\ c.hasAlternatives
  /\ c.criteria = "ok"
  /\ \A i \in 1..Len(c.alts) : c.alts[i].name # NoName /\ c.alts[i].hasComparisons

\* self.config.get("alternatives", {})
ConfigAlternatives(c) == IF c.hasAlternatives THEN c.alts ELSE <<>>

\* main with its `except Exception` clause left out: only AHPConfigError is caught
CaughtConfigErrorOnly(cls) ==
  IF cls = "AHPConfigError" THEN "Configuration Error" ELSE "uncaught exception"

\* the line main's except clauses print for an exception of class cls
Caught(cls) == IF cls = "AHPConfigError" THEN "Configuration Error" ELSE "Unexpected error"

\* an exception of class cls raised at site ends the call; main catches and prints it
Raise(cls, site, printed) ==
  /\ error' = [class |-> cls, site |-> site]
  /\ pc' = "done"
  /\ out' = IF entry = "main" THEN printed \o <<Caught(cls)>> ELSE out

----------------------------------------------------------------------------
Init ==
  /\ file \in Files
  /\ entry = "none"
  /\ pc = "idle"
  /\ mconfig = NoConfig
  /\ config = NoConfig
  /\ criteria = NoCompare
  /\ alternatives = [n \in {} |-> NoCompare]
  /\ altIdx = 0
  /\ cmp = NoCompare
  /\ compares = 0
  /\ hierarchy = NoHierarchy
  /\ todo = {}
  /\ root = NoHierarchy
  /\ error = NoError
  /\ out = <<>>
  /\ weights = NoWeights
  /\ calls = 0

\* main(config_path) is called
CallMain ==
  /\ pc = "idle"
  /\ entry' = "main"
  /\ pc' = "main_load"
  /\ UNCHANGED <<file, mconfig, config, criteria, alternatives, altIdx, cmp, compares,
                 hierarchy, todo, root, error, out, weights, calls>>

\* AHPHierarchy(config_path) is constructed by a caller other than main
CallConstructor ==
  /\ pc = "idle"
  /\ entry' = "direct"
  /\ pc' = "init_load"
  /\ UNCHANGED <<file, mconfig, config, criteria, alternatives, altIdx, cmp, compares,
                 hierarchy, todo, root, error, out, weights, calls>>

\* load_config(config_path), called by main
LoadConfig ==
  /\ pc = "main_load"
  /\ IF file.kind = "json"
       THEN /\ mconfig' = file
            /\ pc' = "main_validate"
            /\ UNCHANGED <<error, out>>
       ELSE /\ Raise("AHPConfigError", "load_config", out)
            /\ UNCHANGED mconfig
  /\ UNCHANGED <<file, entry, config, criteria, alternatives, altIdx, cmp, compares,
                 hierarchy, todo, root, weights, calls>>

\* validate_config(config), called by main
ValidateConfig ==
  /\ pc = "main_validate"
  /\ IF ValidConfig(mconfig)
       THEN /\ pc' = "init_load"
            /\ UNCHANGED <<error, out>>
       ELSE Raise("AHPConfigError", "validate_config", out)
  /\ UNCHANGED <<file, entry, mconfig, config, criteria, alternatives, altIdx, cmp,
                 compares, hierarchy, todo, root, weights, calls>>

\* self.config = self._load_config(config_path)
InitLoadConfig ==
  /\ pc = "init_load"
  /\ IF file.kind = "json"
       THEN /\ config' = file
            /\ pc' = "build_criteria"
            /\ UNCHANGED <<error, out>>
       ELSE /\ Raise("AHPConfigError", "_load_config", out)
            /\ UNCHANGED config
  /\ UNCHANGED <<file, entry, mconfig, criteria, alternatives, altIdx, cmp, compares,
                 hierarchy, todo, root, weights, calls>>

\* self.criteria = self._build_criteria()
BuildCriteria ==
  /\ pc = "build_criteria"
  /\ \/ \* criteria_config.get on a value that is not a dict
        /\ config.criteria = "notdict"
        /\ Raise("AttributeError", "_build_criteria", out)
        /\ UNCHANGED <<cmp, compares, criteria, altIdx>>
     \/ \* ahpy.Compare raises
        /\ config.criteria # "notdict"
        /\ Raise("LibraryError", "criteria_compare", out)
        /\ UNCHANGED <<cmp, compares, criteria, altIdx>>
     \/ \* ahpy.Compare returns c; the consistency check follows
        /\ config.criteria # "notdict"
        /\ \E c \in CriteriaCompares :
             /\ cmp' = c
             /\ compares' = compares + 1
             /\ IF Inconsistent(c.cr)
                  THEN /\ Raise("AHPConfigError", "criteria_cr", out)
                       /\ UNCHANGED <<criteria, altIdx>>
                  ELSE /\ criteria' = c
                       /\ altIdx' = 1
                       /\ pc' = "build_alternatives"
                       /\ UNCHANGED <<error, out>>
  /\ UNCHANGED <<file, entry, mconfig, config, alternatives, hierarchy, todo, root,
                 weights, calls>>

\* one pass of the loop of _build_alternatives
BuildAlternative ==
  /\ pc = "build_alternatives"
  /\ altIdx <= Len(ConfigAlternatives(config))
  /\ LET criterion == ConfigAlternatives(config)[altIdx] IN
       \/ \* criterion["name"] on an entry without the key
          /\ criterion.name = NoName
          /\ Raise("KeyError", "alternative_name", out)
          /\ UNCHANGED <<cmp, compares, alternatives, altIdx>>
       \/ \* criterion["comparisons"] on an entry without the key
          /\ criterion.name # NoName
          /\ ~criterion.hasComparisons
          /\ Raise("KeyError", "alternative_comparisons", out)
          /\ UNCHANGED <<cmp, compares, alternatives, altIdx>>
       \/ \* ahpy.Compare raises
          /\ criterion.name # NoName
          /\ criterion.hasComparisons
          /\ Raise("LibraryError", "alternative_compare", out)
          /\ UNCHANGED <<cmp, compares, alternatives, altIdx>>
       \/ \* ahpy.Compare returns c; the consistency check follows
          /\ criterion.name # NoName
          /\ criterion.hasComparisons
          /\ \E c \in AlternativeCompares :
               /\ cmp' = c
               /\ compares' = compares + 1
               /\ IF Inconsistent(c.cr)
                    THEN /\ Raise("AHPConfigError", "alternative_cr", out)
                         /\ UNCHANGED <<alternatives, altIdx>>
                    ELSE /\ alternatives' =
                              [n \in DOMAIN alternatives \cup {criterion.name} |->
                                 IF n = criterion.name THEN c ELSE alternatives[n]]
                         /\ altIdx' = altIdx + 1
                         /\ UNCHANGED <<pc, error, out>>
  /\ UNCHANGED <<file, entry, mconfig, config, criteria, hierarchy, todo, root,
                 weights, calls>>

\* `return alternatives` indented into the loop body: the loop ends after its first pass
ReturnAlternativesInsideLoop ==
  /\ pc = "build_alternatives"
  /\ altIdx > Len(ConfigAlternatives(config)) \/ altIdx >= 2
  /\ pc' = "build_root"
  /\ UNCHANGED <<file, entry, mconfig, config, criteria, alternatives, altIdx, cmp,
                 compares, hierarchy, todo, root, error, out, weights, calls>>

\* the loop of _build_alternatives ends: self.alternatives = alternatives
ReturnAlternatives ==
  /\ pc = "build_alternatives"
  /\ altIdx > Len(ConfigAlternatives(config))
  /\ pc' = "build_root"
  /\ UNCHANGED <<file, entry, mconfig, config, criteria, alternatives, altIdx, cmp,
                 compares, hierarchy, todo, root, error, out, weights, calls>>

\* _build_hierarchical_structure: ahpy.Hierarchy(name="Root"); hierarchy.add(self.criteria)
NewHierarchy ==
  /\ pc = "build_root"
  /\ \/ /\ Raise("LibraryError", "hierarchy_add", out)
        /\ UNCHANGED <<hierarchy, todo>>
     \/ /\ hierarchy' = [built |-> TRUE, criteria |-> criteria,
                         children |-> [n \in {} |-> NoCompare]]
        /\ todo' = criteria.elements
        /\ pc' = "add_children"
        /\ UNCHANGED <<error, out>>
  /\ UNCHANGED <<file, entry, mconfig, config, criteria, alternatives, altIdx, cmp,
                 compares, root, weights, calls>>

\* one pass of the loop of _build_hierarchical_structure
AddChild ==
  /\ pc = "add_children"
  /\ \E criterion \in todo :
       \/ \* self.alternatives[criterion] for a criterion without alternatives
          /\ criterion \notin DOMAIN alternatives
          /\ Raise("KeyError", "missing_alternatives", out)
          /\ UNCHANGED <<hierarchy, todo>>
       \/ \* hierarchy.add_child raises
          /\ criterion \in DOMAIN alternatives
          /\ Raise("LibraryError", "add_child", out)
          /\ UNCHANGED <<hierarchy, todo>>
       \/ \* hierarchy.add_child links the comparison
          /\ criterion \in DOMAIN alternatives
          /\ hierarchy' =
               [hierarchy EXCEPT !.children =
                  [n \in DOMAIN hierarchy.children \cup {criterion} |-> alternatives[n]]]
          /\ todo' = todo \ {criterion}
          /\ UNCHANGED <<pc, error, out>>
  /\ UNCHANGED <<file, entry, mconfig, config, criteria, alternatives, altIdx, cmp,
                 compares, root, weights, calls>>

\* return hierarchy; self.root = ...; the constructor returns
ReturnHierarchy ==
  /\ pc = "add_children"
  /\ todo = {}
  /\ root' = hierarchy
  /\ pc' = IF entry = "main" THEN "main_report" ELSE "built"
  /\ UNCHANGED <<file, entry, mconfig, config, criteria, alternatives, altIdx, cmp,
                 compares, hierarchy, todo, error, out, weights, calls>>

\* main: print the report header and ahp.report()
MainReport ==
  /\ pc = "main_report"
  /\ \/ Raise("LibraryError", "report", out \o <<"AHP Analysis Report:">>)
     \/ /\ out' = out \o <<"AHP Analysis Report:", "report">>
        /\ pc' = "main_weights"
        /\ UNCHANGED error
  /\ UNCHANGED <<file, entry, mconfig, config, criteria, alternatives, altIdx, cmp,
                 compares, hierarchy, todo, root, weights, calls>>

\* main: print "Final Weights:" and one line per item of ahp.get_final_weights()
MainWeights ==
  /\ pc = "main_weights"
  /\ \/ /\ Raise("LibraryError", "get_priority_vector", out \o <<"Final Weights:">>)
        /\ UNCHANGED weights
     \/ \E v \in Vectors :
          /\ weights' = v
          /\ out' = out \o <<"Final Weights:", "weight lines">>
          /\ pc' = "done"
          /\ UNCHANGED error
  /\ UNCHANGED <<file, entry, mconfig, config, criteria, alternatives, altIdx, cmp,
                 compares, hierarchy, todo, root, calls>>

\* get_final_weights() called on a hierarchy built by a direct caller
GetFinalWeights ==
  /\ pc = "built"
  /\ calls < MaxCalls
  /\ calls' = calls + 1
  /\ \/ /\ error' = [class |-> "LibraryError", site |-> "get_priority_vector"]
        /\ UNCHANGED weights
     \/ \E v \in Vectors :
          /\ weights' = v
          /\ UNCHANGED error
  /\ UNCHANGED <<file, entry, pc, mconfig, config, criteria, alternatives, altIdx, cmp,
                 compares, hierarchy, todo, root, out>>

\* report() called on a hierarchy built by a direct caller
Report ==
  /\ pc = "built"
  /\ calls < MaxCalls
  /\ calls' = calls + 1
  /\ \/ error' = [class |-> "LibraryError", site |-> "report"]
     \/ UNCHANGED error
  /\ UNCHANGED <<file, entry, pc, mconfig, config, criteria, alternatives, altIdx, cmp,
                 compares, hierarchy, todo, root, out, weights>>

Next ==
  \/ CallMain
  \/ CallConstructor
  \/ LoadConfig
  \/ ValidateConfig
  \/ InitLoadConfig
  \/ BuildCriteria
  \/ BuildAlternative
  \/ ReturnAlternatives
  \/ NewHierarchy
  \/ AddChild
  \/ ReturnHierarchy
  \/ MainReport
  \/ MainWeights
  \/ GetFinalWeights
  \/ Report

Spec == Init /\ [][Next]_vars

----------------------------------------------------------------------------
(* Claims *)

\* the two places that raise AHPConfigError for an inconsistent comparison
InconsistencySites == {"criteria_cr", "alternative_cr"}

C5_MissingBlockIsConfigError ==
  ( /\ pc = "done"
    /\ ValidConfig(config)
    /\ hierarchy.built
    /\ \E c \in criteria.elements : c \notin DOMAIN alternatives
    /\ error.class # "LibraryError" )
  => /\ error.class = "AHPConfigError"
     /\ entry = "main" => out[Len(out)] = "Configuration Error"
     /\ weights = NoWeights

\* C6: whenever an ahpy.Compare has been constructed, the configuration it was
\* constructed from passes validate_config.
C6_NoCompareFromInvalidConfig ==
  compares > 0 => ValidConfig(config)

\* the alternatives entries of the loaded configuration
ConfiguredAlternatives == ConfigAlternatives(config)

\* C13: the linking step (ahpy.Hierarchy, add, add_child) starts only after the criteria
\* comparison and the comparison of every configured alternatives entry have been
\* constructed and accepted, links only comparisons that were built, and final weights
\* are obtained only from a root in which every criterion has its comparison linked.
C13_LinkingAfterAllComparisons ==
  /\ hierarchy.built =>
       /\ criteria # NoCompare
       /\ hierarchy.criteria = criteria
       /\ altIdx = Len(ConfiguredAlternatives) + 1
       /\ compares = Len(ConfiguredAlternatives) + 1
       /\ \A i \in 1..Len(ConfiguredAlternatives) :
            ConfiguredAlternatives[i].name \in DOMAIN alternatives
       /\ \A c \in DOMAIN hierarchy.children :
            c \in DOMAIN alternatives /\ hierarchy.children[c] = alternatives[c]
  /\ (hierarchy.built /\ pc = "add_children") => error = NoError
  /\ weights # NoWeights =>
       /\ root.built
       /\ root = hierarchy
       /\ DOMAIN root.children = criteria.elements

\* C13 witness: two alternatives entries were compared, both criteria are linked and the
\* final weights have been obtained
C13_Witness ==
  /\ Len(ConfiguredAlternatives) = 2
  /\ compares = 3
  /\ DOMAIN root.children = {"X", "Y"}
  /\ weights # NoWeights

\* lines main prints only on its way to the final weights
WeightOutput == {"Final Weights:", "weight lines"}

\* C19: in main every exception raised while loading, validating, building or reporting
\* is caught: the call ends and its last printed line is "Configuration Error" for an
\* AHPConfigError and "Unexpected error" for any other exception; the final-weights
\* lines are printed only after load_config, validate_config and the whole build
\* (criteria, every alternatives entry, every link, root) have succeeded.
C19_MainCatchesEveryFailure ==
  entry = "main" =>
    /\ error # NoError =>
         /\ pc = "done"
         /\ out # <<>>
         /\ out[Len(out)] =
              IF error.class = "AHPConfigError" THEN "Configuration Error"
                                                ELSE "Unexpected error"
    /\ (\E i \in 1..Len(out) : out[i] \in WeightOutput) =>
         /\ mconfig.kind = "json"
         /\ ValidConfig(mconfig)
         /\ config = mconfig
         /\ criteria # NoCompare
         /\ altIdx = Len(ConfiguredAlternatives) + 1
         /\ root.built
         /\ DOMAIN root.children = criteria.elements
         /\ error.site \in {"none", "get_priority_vector"}
    /\ (\E i \in 1..Len(out) : out[i] = "weight lines") => error = NoError

\* C19 witness: main built the hierarchy, printed the "Final Weights:" header, and the
\* exception then raised by get_final_weights was caught and printed
C19_Witness ==
  /\ entry = "main"
  /\ error.class = "LibraryError"
  /\ error.site = "get_priority_vector"
  /\ out[Len(out)] = "Unexpected error"
====
